---- MODULE Spec2Model ----
(***************************************************************************)
(* Monte Carlo Tree Search engine of src/src/mcts_chess.py: MCTSNode,      *)
(* ChessMCTS.search and the four phases of one iteration.                  *)
(*                                                                         *)
(* Scores are kept in half points (wins = 2 means 1.0, 1 means 0.5), so    *)
(* that the float sums of 0.0 / 0.5 / 1.0 the code computes are exact      *)
(* integers here.  The exploration constant is kept in thousandths.        *)
(***************************************************************************)
EXTENDS Integers, Sequences, FiniteSets, TLC

\* ---------------------------------------------------------------- bounds
MaxSims == 5        \* largest num_simulations tried
MaxTreeDepth == 2   \* largest max_simulation_depth tried
MaxKidVisits == 2   \* SpecSelect: largest visit count of a scored child
MaxSimsTwoCalls == 3 \* SpecTwoCalls: largest num_simulations tried
MaxPvDepth == 3     \* SpecPV: largest depth asked of get_principal_variation

VARIABLES
    config,            \* ChessMCTS.config
    board,             \* the board the caller passes to search()
    nodes,             \* arena of MCTSNode objects; self.root is nodes[1]
    simulations_run,   \* local of search()
    node,              \* local of search(): result of _select (0 = unset)
    child_node,        \* local of search(): result of expand (0 = unset)
    result,            \* local of search(): rollout score in half points
    simulation_board,  \* final board of the last rollout
    pc,                \* position inside search()
    best_move,         \* first component of the value search() returns
    stats,             \* second component of the value search() returns
    persp,             \* history: per node, rollout outcomes scored for the
                       \* side to move at that node, in half points
    started,           \* history: per node, rollouts that started at it
    through,           \* history: per node, backpropagate calls on it
    calls_left,        \* calls of search() the caller still makes
    prev_tree_size,    \* history: nodes of the tree the previous call left
    pv                 \* last call of get_principal_variation: its depth
                       \* argument and the moves it returned

vars == <<config, board, nodes, simulations_run, node, child_node, result,
          simulation_board, pc, best_move, stats, persp, started, through,
          calls_left, prev_tree_size, pv>>

NoNode == 0
NoMove == 0
NoBoard == [id |-> 0, turn |-> TRUE]
NoStats == [simulations_run |-> -1]
NoPv == [depth |-> -1, moves |-> <<>>]

\* ------------------------------------------------- rules engine (chess)
\* A small game: positions 1..10, a move is named by the position it
\* leads to, the side to move alternates with every move.  Positions 11
\* and 12 are those of a rules engine that never reports game-over and
\* always has a legal move; no move leads to them from 1..10.
PositionIds == 1..10

EndlessIds == 11..12

Kind(id) ==
    CASE id = 5  -> "checkmate"
      [] id = 6  -> "stalemate"
      [] id = 8  -> "insufficient"
      [] id = 10 -> "seventyfive"
      [] OTHER   -> "play"

Successors(id) ==
    CASE id = 1  -> <<2, 3, 4>>
      [] id = 2  -> <<5, 6>>
      [] id = 3  -> <<5, 7>>
      [] id = 4  -> <<8>>
      [] id = 7  -> <<5, 9>>
      [] id = 8  -> <<8>>
      [] id = 9  -> <<5>>
      [] id = 10 -> <<7>>
      [] id = 11 -> <<12>>
      [] id = 12 -> <<11, 12>>
      [] OTHER   -> <<>>

Boards == [id : PositionIds, turn : BOOLEAN]

EndlessBoards == [id : EndlessIds, turn : BOOLEAN]

LegalMoves(b) == Successors(b.id)
Push(b, m) == [id |-> m, turn |-> ~b.turn]
IsCheckmate(b) == Kind(b.id) = "checkmate"
IsStalemate(b) == Kind(b.id) = "stalemate"
IsInsufficientMaterial(b) == Kind(b.id) = "insufficient"
IsGameOver(b) == Kind(b.id) # "play"

Range(s) == {s[i] : i \in 1..Len(s)}

\* random.shuffle: every ordering of the list
Shuffles(s) ==
    {t \in [1..Len(s) -> Range(s)] : Range(t) = Range(s)}

\* ---------------------------------------------------------------- config
ExplorationConstants == {-1414, 0, 1414}

Configs ==
    [max_simulation_depth : 0..MaxTreeDepth,
     num_simulations : 0..MaxSims,
     exploration_constant : ExplorationConstants]

\* -------------------------------------------------------------- MCTSNode
\* __init__ starting the visit count at 1
NewNode_visits_one(b, move, parent, order, depth) ==
    [board |-> b, move |-> move, parent |-> parent, children |-> <<>>,
     visits |-> 1, wins |-> 0, legal_moves |-> order,
     unexplored_moves |-> order, depth |-> depth]

\* MCTSNode.__init__, the shuffled move order passed in
NewNode(b, move, parent, order, depth) ==
    [board |-> b, move |-> move, parent |-> parent, children |-> <<>>,
     visits |-> 0, wins |-> 0, legal_moves |-> order,
     unexplored_moves |-> order, depth |-> depth]

\* is_fully_expanded answering one move too early
is_fully_expanded_early(n) == Len(n.unexplored_moves) <= 1

\* MCTSNode.is_fully_expanded, lines 82-91
is_fully_expanded(n) == Len(n.unexplored_moves) = 0

\* is_terminal asking is_checkmate() instead of is_game_over()
is_terminal_checkmate_only(n) == IsCheckmate(n.board)

\* MCTSNode.is_terminal, lines 93-102
is_terminal(n) == IsGameOver(n.board)

\* MCTSNode.expand, lines 174-179 with ">=" weakened to ">"
expand_returns_self_gt(n, max_depth) ==
    \/ Len(n.unexplored_moves) = 0
    \/ n.depth > max_depth

\* MCTSNode.expand, lines 174-179: the two early returns of self
expand_returns_self(n, max_depth) ==
    \/ Len(n.unexplored_moves) = 0
    \/ n.depth >= max_depth

\* floor(ln(n) * 10^4)
LnE4(n) ==
    <<0, 6931, 10986, 13862, 16094, 17917, 19459, 20794, 21972, 23025,
      23978, 24849, 25649, 26390, 27080, 27725>>[n]

RECURSIVE SqrtBetween(_, _, _)
SqrtBetween(x, lo, hi) ==
    IF lo >= hi THEN lo
    ELSE LET mid == (lo + hi + 1) \div 2
         IN IF mid * mid <= x THEN SqrtBetween(x, mid, hi)
            ELSE SqrtBetween(x, lo, mid - 1)

\* floor(sqrt(x)), 0 <= x < 10^9
ISqrt(x) == SqrtBetween(x, 0, 31622)

Infinity == 2000000000

\* ucb1_value without the infinity of an unvisited node
ucb1_value_unvisited_zero(ns, n, exploration_constant) ==
    IF ns[n].visits = 0 THEN 0
    ELSE LET exploitation == (ns[n].wins * 5000000) \div ns[n].visits
             exploration ==
                 exploration_constant *
                 ISqrt((LnE4(ns[ns[n].parent].visits) * 10000)
                        \div ns[n].visits)
         IN exploitation + exploration

\* MCTSNode.ucb1_value in units of 10^-7.  For siblings whose visit counts
\* sum to at most parent visits + 1 <= 13 the order of these integers is
\* the order of the floats the code compares (equal floats included).
ucb1_value(ns, n, exploration_constant) ==
    IF ns[n].visits = 0 THEN Infinity
    ELSE LET exploitation == (ns[n].wins * 5000000) \div ns[n].visits
             exploration ==
                 exploration_constant *
                 ISqrt((LnE4(ns[ns[n].parent].visits) * 10000)
                        \div ns[n].visits)
         IN exploitation + exploration

\* Python's max(seq, key=...) over the keys of the elements: the index of
\* the first element whose key is maximal
RECURSIVE MaxFrom(_, _, _)
MaxFrom(keys, i, best) ==
    IF i > Len(keys) THEN best
    ELSE MaxFrom(keys, i + 1, IF keys[i] > keys[best] THEN i ELSE best)

PyMax(keys) == MaxFrom(keys, 2, 1)

\* MCTSNode.select_best_child (children non-empty)
select_best_child(ns, n, exploration_constant) ==
    ns[n].children[
        PyMax([i \in 1..Len(ns[n].children) |->
                  ucb1_value(ns, ns[n].children[i], exploration_constant)])]

\* _evaluate_position with the two checkmate scores exchanged
_evaluate_position_swapped(board_turn, b) ==
    IF IsCheckmate(b)
    THEN IF b.turn = board_turn THEN 2 ELSE 0
    ELSE 1

\* MCTSNode._evaluate_position, in half points
_evaluate_position(board_turn, b) ==
    IF IsCheckmate(b)
    THEN IF b.turn = board_turn THEN 0 ELSE 2
    ELSE IF IsStalemate(b) \/ IsInsufficientMaterial(b) THEN 1
    ELSE 1

\* MCTSNode.simulate: the boards a random playout from b can stop at
RECURSIVE RolloutEnds(_)
RolloutEnds(b) ==
    IF IsGameOver(b) \/ Len(LegalMoves(b)) = 0 THEN {b}
    ELSE UNION {RolloutEnds(Push(b, m)) : m \in Range(LegalMoves(b))}

\* backpropagate without the call on the parent
backpropagate_self_only(ns, n, r) ==
    [ns EXCEPT ![n].visits = @ + 1, ![n].wins = @ + r]

\* backpropagate handing -result instead of 1.0 - result to the parent
RECURSIVE backpropagate_negated(_, _, _)
backpropagate_negated(ns, n, r) ==
    LET ns1 == [ns EXCEPT ![n].visits = @ + 1, ![n].wins = @ + r]
    IN IF ns[n].parent # NoNode
       THEN backpropagate_negated(ns1, ns[n].parent, 0 - r)
       ELSE ns1

\* backpropagate updating the parent in place of the call on the parent
backpropagate_one_level(ns, n, r) ==
    LET ns1 == [ns EXCEPT ![n].visits = @ + 1, ![n].wins = @ + r]
    IN IF ns[n].parent # NoNode
       THEN [ns1 EXCEPT ![ns[n].parent].visits = @ + 1,
                        ![ns[n].parent].wins = @ + (2 - r)]
       ELSE ns1

\* backpropagate as the code has it, for backpropagate_skip_self
RECURSIVE backpropagate_up(_, _, _)
backpropagate_up(ns, n, r) ==
    LET ns1 == [ns EXCEPT ![n].visits = @ + 1, ![n].wins = @ + r]
    IN IF ns[n].parent # NoNode
       THEN backpropagate_up(ns1, ns[n].parent, 2 - r)
       ELSE ns1

\* backpropagate starting at the parent of the node it is called on
backpropagate_skip_self(ns, n, r) ==
    IF ns[n].parent # NoNode
    THEN backpropagate_up(ns, ns[n].parent, 2 - r)
    ELSE ns

\* backpropagate handing result itself, not 1.0 - result, to the parent
RECURSIVE backpropagate_no_flip(_, _, _)
backpropagate_no_flip(ns, n, r) ==
    LET ns1 == [ns EXCEPT ![n].visits = @ + 1, ![n].wins = @ + r]
    IN IF ns[n].parent # NoNode
       THEN backpropagate_no_flip(ns1, ns[n].parent, r)
       ELSE ns1

\* MCTSNode.backpropagate
RECURSIVE backpropagate(_, _, _)
backpropagate(ns, n, r) ==
    LET ns1 == [ns EXCEPT ![n].visits = @ + 1, ![n].wins = @ + r]
    IN IF ns[n].parent # NoNode
       THEN backpropagate(ns1, ns[n].parent, 2 - r)
       ELSE ns1

\* expand reading the first untried move without removing it
expand_no_pop(ns, n, order) ==
    LET move == Head(ns[n].unexplored_moves)
        new_board == Push(ns[n].board, move)
    IN Append([ns EXCEPT ![n].children = Append(@, Len(ns) + 1)],
              NewNode(new_board, move, n, order, ns[n].depth + 1))

\* expand pushing the move on self.board itself, not on a copy
expand_in_place(ns, n, order) ==
    LET move == Head(ns[n].unexplored_moves)
        new_board == Push(ns[n].board, move)
    IN Append([ns EXCEPT ![n].unexplored_moves = Tail(@),
                         ![n].children = Append(@, Len(ns) + 1),
                         ![n].board = new_board],
              NewNode(new_board, move, n, order, ns[n].depth + 1))

\* expand without self.children.append(child)
expand_no_append(ns, n, order) ==
    LET move == Head(ns[n].unexplored_moves)
        new_board == Push(ns[n].board, move)
    IN Append([ns EXCEPT ![n].unexplored_moves = Tail(@)],
              NewNode(new_board, move, n, order, ns[n].depth + 1))

\* expand putting the new child in front of its siblings
expand_child_first(ns, n, order) ==
    LET move == Head(ns[n].unexplored_moves)
        new_board == Push(ns[n].board, move)
    IN Append([ns EXCEPT ![n].unexplored_moves = Tail(@),
                         ![n].children = <<Len(ns) + 1>> \o @],
              NewNode(new_board, move, n, order, ns[n].depth + 1))

\* expand popping the last untried move, pop() for pop(0)
expand_pop_last(ns, n, order) ==
    LET untried == ns[n].unexplored_moves
        move == untried[Len(untried)]
        new_board == Push(ns[n].board, move)
    IN Append([ns EXCEPT ![n].unexplored_moves =
                             SubSeq(@, 1, Len(@) - 1),
                         ![n].children = Append(@, Len(ns) + 1)],
              NewNode(new_board, move, n, order, ns[n].depth + 1))

\* MCTSNode.expand, lines 181-190, on a node that does expand; order is
\* the shuffle of the new child's legal moves
expand(ns, n, order) ==
    LET move == Head(ns[n].unexplored_moves)
        new_board == Push(ns[n].board, move)
    IN Append([ns EXCEPT ![n].unexplored_moves = Tail(@),
                         ![n].children = Append(@, Len(ns) + 1)],
              NewNode(new_board, move, n, order, ns[n].depth + 1))

\* ------------------------------------------------------------- ChessMCTS
\* search() keeping a root the engine already holds
search_root_reuse(ns, b, order) ==
    IF Len(ns) > 0 THEN ns ELSE <<NewNode(b, NoMove, NoNode, order, 0)>>

\* search(), line 337: self.root = MCTSNode(board); ns is the tree the
\* engine held before the call
search_root(ns, b, order) == <<NewNode(b, NoMove, NoNode, order, 0)>>

\* search(), line 347: the loop test
loop_continues(run, cfg) == run < cfg.num_simulations

\* _select without the is_terminal test
RECURSIVE _select_through_terminal(_, _, _)
_select_through_terminal(ns, n, exploration_constant) ==
    IF is_fully_expanded(ns[n])
    THEN IF Len(ns[n].children) = 0 THEN NoNode
         ELSE _select_through_terminal(
                  ns, select_best_child(ns, n, exploration_constant),
                  exploration_constant)
    ELSE n

\* ChessMCTS._select; NoNode when max() meets an empty children list
RECURSIVE _select(_, _, _)
_select(ns, n, exploration_constant) ==
    IF ~is_terminal(ns[n]) /\ is_fully_expanded(ns[n])
    THEN IF Len(ns[n].children) = 0 THEN NoNode
         ELSE _select(ns, select_best_child(ns, n, exploration_constant),
                      exploration_constant)
    ELSE n

\* max() keeping the last of the maximal elements
RECURSIVE MaxLastFrom(_, _, _, _)
MaxLastFrom(ns, ids, i, best) ==
    IF i > Len(ids) THEN best
    ELSE MaxLastFrom(ns, ids, i + 1,
                     IF ns[ids[i]].visits >= ns[best].visits
                     THEN ids[i] ELSE best)

most_visited_child_last(ns, n) ==
    MaxLastFrom(ns, ns[n].children, 2, ns[n].children[1])

\* search() line 371, get_principal_variation() line 460:
\* max(node.children, key=lambda child: child.visits)
most_visited_child(ns, n) ==
    ns[n].children[
        PyMax([i \in 1..Len(ns[n].children) |-> ns[ns[n].children[i]].visits])]

\* get_principal_variation, lines 454-462: the loop, with the turns of
\* range(depth) still to run, standing at node n
RECURSIVE PvFrom(_, _, _)
PvFrom(ns, n, turns) ==
    IF turns <= 0 \/ Len(ns[n].children) = 0 THEN <<>>
    ELSE LET best_child == most_visited_child(ns, n)
         IN <<ns[best_child].move>> \o PvFrom(ns, best_child, turns - 1)

\* get_principal_variation looping over range(depth + 1)
get_principal_variation_extra_step(ns, depth) == PvFrom(ns, 1, depth + 1)

\* ChessMCTS.get_principal_variation
get_principal_variation(ns, depth) == PvFrom(ns, 1, depth)

\* ChessMCTS._count_nodes
RECURSIVE _count_nodes(_, _)
RECURSIVE CountList(_, _, _)
CountList(ns, ids, i) ==
    IF i > Len(ids) THEN 0
    ELSE _count_nodes(ns, ids[i]) + CountList(ns, ids, i + 1)
_count_nodes(ns, n) == 1 + CountList(ns, ns[n].children, 1)

\* result of the rollout that ended at b, for the given side, half points
OutcomeFor(side, b) ==
    IF IsCheckmate(b) THEN (IF b.turn = side THEN 0 ELSE 2) ELSE 1

\* the nodes from n up to the root
RECURSIVE PathToRoot(_, _)
PathToRoot(ns, n) ==
    IF ns[n].parent = NoNode THEN {n}
    ELSE {n} \cup PathToRoot(ns, ns[n].parent)

Init ==
    /\ config \in Configs
    /\ board = NoBoard
    /\ nodes = <<>>
    /\ simulations_run = 0
    /\ node = NoNode
    /\ child_node = NoNode
    /\ result = 0
    /\ simulation_board = NoBoard
    /\ pc = "idle"
    /\ best_move = NoMove
    /\ stats = NoStats
    /\ persp = <<>>
    /\ started = <<>>
    /\ through = <<>>
    /\ calls_left = 1
    /\ prev_tree_size = 0
    /\ pv = NoPv

\* search(), lines 337-339: build the root, reset the counter; the locals
\* and the return value of an earlier call are gone
SearchStart ==
    /\ pc \in {"idle", "done", "raised"}
    /\ calls_left > 0
    /\ calls_left' = calls_left - 1
    /\ prev_tree_size' = Len(nodes)
    /\ \E b \in Boards : \E order \in Shuffles(LegalMoves(b)) :
          /\ board' = b
          /\ nodes' = search_root(nodes, b, order)
          /\ persp' = [i \in 1..Len(nodes') |-> 0]
          /\ started' = [i \in 1..Len(nodes') |-> 0]
          /\ through' = [i \in 1..Len(nodes') |-> 0]
    /\ simulations_run' = 0
    /\ node' = NoNode
    /\ child_node' = NoNode
    /\ result' = 0
    /\ simulation_board' = NoBoard
    /\ best_move' = NoMove
    /\ stats' = NoStats
    /\ pc' = "loop"
    /\ UNCHANGED <<config, pv>>

\* search(), lines 347-351: loop test and Selection
Select ==
    /\ pc = "loop"
    /\ loop_continues(simulations_run, config)
    /\ node' = _select(nodes, 1, config.exploration_constant)
    /\ pc' = IF node' = NoNode THEN "raised" ELSE "expand"
    /\ UNCHANGED <<config, board, nodes, simulations_run, child_node, result,
                   simulation_board, best_move, stats, persp, started,
                   through, calls_left, prev_tree_size, pv>>

\* search(), line 355 with MCTSNode.expand
Expand ==
    /\ pc = "expand"
    /\ IF expand_returns_self(nodes[node], config.max_simulation_depth)
       THEN /\ child_node' = node
            /\ UNCHANGED <<nodes, persp, started, through>>
       ELSE LET new_board ==
                    Push(nodes[node].board,
                         Head(nodes[node].unexplored_moves))
            IN \E order \in Shuffles(LegalMoves(new_board)) :
                  /\ nodes' = expand(nodes, node, order)
                  /\ persp' = Append(persp, 0)
                  /\ started' = Append(started, 0)
                  /\ through' = Append(through, 0)
                  /\ child_node' = Len(nodes')
    /\ pc' = "simulate"
    /\ UNCHANGED <<config, board, simulations_run, node, result,
                   simulation_board, best_move, stats, calls_left, prev_tree_size, pv>>

\* search(), line 358 with MCTSNode.simulate
Simulate ==
    /\ pc = "simulate"
    /\ \E final \in RolloutEnds(nodes[child_node].board) :
          /\ simulation_board' = final
          /\ result' = _evaluate_position(board.turn, final)
    /\ pc' = "backprop"
    /\ UNCHANGED <<config, board, nodes, simulations_run, node, child_node,
                   best_move, stats, persp, started, through, calls_left, prev_tree_size, pv>>

\* search(), lines 361-363 with MCTSNode.backpropagate
Backpropagate ==
    /\ pc = "backprop"
    /\ nodes' = backpropagate(nodes, child_node, result)
    /\ persp' = [i \in 1..Len(persp) |->
                   IF i \in PathToRoot(nodes, child_node)
                   THEN persp[i]
                        + OutcomeFor(nodes[i].board.turn, simulation_board)
                   ELSE persp[i]]
    /\ started' = [started EXCEPT ![child_node] = @ + 1]
    /\ through' = [i \in 1..Len(through) |->
                     IF i \in PathToRoot(nodes, child_node)
                     THEN through[i] + 1 ELSE through[i]]
    /\ simulations_run' = simulations_run + 1
    /\ pc' = "loop"
    /\ UNCHANGED <<config, board, node, child_node, result,
                   simulation_board, best_move, stats, calls_left, prev_tree_size, pv>>

\* search(), lines 370-390: choose the move, gather the statistics
Finish ==
    /\ pc = "loop"
    /\ ~loop_continues(simulations_run, config)
    /\ IF Len(nodes[1].children) = 0
       THEN \* max() of an empty sequence: ValueError
            /\ pc' = "raised"
            /\ UNCHANGED <<best_move, stats>>
       ELSE LET best_child == most_visited_child(nodes, 1)
            IN IF nodes[best_child].visits = 0
               THEN \* wins / visits: ZeroDivisionError
                    /\ pc' = "raised"
                    /\ UNCHANGED <<best_move, stats>>
               ELSE /\ best_move' = nodes[best_child].move
                    /\ stats' =
                         [simulations_run |-> simulations_run,
                          tree_size |-> _count_nodes(nodes, 1),
                          root_visits |-> nodes[1].visits,
                          best_move_visits |-> nodes[best_child].visits,
                          children_count |-> Len(nodes[1].children),
                          selected_move_win_rate |->
                              <<nodes[best_child].wins,
                                2 * nodes[best_child].visits>>]
                    /\ pc' = "done"
    /\ UNCHANGED <<config, board, nodes, simulations_run, node, child_node,
                   result, simulation_board, persp, started, through,
                   calls_left, prev_tree_size, pv>>

Next ==
    \/ SearchStart
    \/ Select
    \/ Expand
    \/ Simulate
    \/ Backpropagate
    \/ Finish

Spec == Init /\ [][Next]_vars

\* get_principal_variation(depth) called on the tree a search() left
PrincipalVariation ==
    /\ pc \in {"done", "raised"}
    /\ \E depth \in 0..MaxPvDepth :
          pv' = [depth |-> depth,
                 moves |-> get_principal_variation(nodes, depth)]
    /\ UNCHANGED <<config, board, nodes, simulations_run, node, child_node,
                   result, simulation_board, pc, best_move, stats, persp,
                   started, through, calls_left, prev_tree_size>>

NextPV ==
    \/ Next
    \/ PrincipalVariation

SpecPV == Init /\ [][NextPV]_vars

\* two calls of search() on one engine, with a small budget
ConfigsTwoCalls ==
    [max_simulation_depth : 0..MaxTreeDepth,
     num_simulations : 0..MaxSimsTwoCalls,
     exploration_constant : ExplorationConstants]

InitTwoCalls ==
    /\ config \in ConfigsTwoCalls
    /\ board = NoBoard
    /\ nodes = <<>>
    /\ simulations_run = 0
    /\ node = NoNode
    /\ child_node = NoNode
    /\ result = 0
    /\ simulation_board = NoBoard
    /\ pc = "idle"
    /\ best_move = NoMove
    /\ stats = NoStats
    /\ persp = <<>>
    /\ started = <<>>
    /\ through = <<>>
    /\ calls_left = 2
    /\ prev_tree_size = 0
    /\ pv = NoPv

SpecTwoCalls == InitTwoCalls /\ [][Next]_vars

\* ------------------------------------------ simulate(), ply by ply
\* search() has reached line 358 with a root that is its own child_node;
\* the root's board is any board of either rules engine
InitRollout ==
    /\ config \in Configs
    /\ board \in Boards \cup EndlessBoards
    /\ nodes = <<NewNode(board, NoMove, NoNode, LegalMoves(board), 0)>>
    /\ simulations_run = 0
    /\ node = 1
    /\ child_node = 1
    /\ result = 0
    /\ simulation_board = NoBoard
    /\ pc = "simulate"
    /\ best_move = NoMove
    /\ stats = NoStats
    /\ persp = <<0>>
    /\ started = <<0>>
    /\ through = <<0>>
    /\ calls_left = 0
    /\ prev_tree_size = 0
    /\ pv = NoPv

\* simulate(), line 213: simulation_board = child_board.copy()
RolloutCopy ==
    /\ pc = "simulate"
    /\ simulation_board' = nodes[child_node].board
    /\ pc' = "rollout"
    /\ UNCHANGED <<config, board, nodes, simulations_run, node, child_node,
                   result, best_move, stats, persp, started, through,
                   calls_left, prev_tree_size, pv>>

\* simulate(), lines 216-229: one turn of the while loop
RolloutPly ==
    /\ pc = "rollout"
    /\ ~IsGameOver(simulation_board)
    /\ Len(LegalMoves(simulation_board)) > 0
    /\ \E m \in Range(LegalMoves(simulation_board)) :
          simulation_board' = Push(simulation_board, m)
    /\ UNCHANGED <<config, board, nodes, simulations_run, node, child_node,
                   result, pc, best_move, stats, persp, started, through,
                   calls_left, prev_tree_size, pv>>

\* simulate(), lines 216, 224-225 and 232: the loop ends, the final
\* position is evaluated
RolloutReturn ==
    /\ pc = "rollout"
    /\ IsGameOver(simulation_board) \/ Len(LegalMoves(simulation_board)) = 0
    /\ result' = _evaluate_position(board.turn, simulation_board)
    /\ pc' = "backprop"
    /\ UNCHANGED <<config, board, nodes, simulations_run, node, child_node,
                   simulation_board, best_move, stats, persp, started,
                   through, calls_left, prev_tree_size, pv>>

NextRollout ==
    \/ RolloutCopy
    \/ RolloutPly
    \/ RolloutReturn

\* simulate() is straight-line, single-threaded code: it keeps running
SpecRollout == InitRollout /\ [][NextRollout]_vars /\ WF_vars(NextRollout)

\* --------------------------------------- select_best_child on its own
\* A node with its first k moves expanded, the children's statistics drawn
\* from all values with 0 <= wins <= visits <= MaxKidVisits, the node's
\* own visit count the children's total plus the rollouts it started.
KidStats ==
    {st \in (0..MaxKidVisits) \X (0..(2 * MaxKidVisits)) :
        st[2] <= 2 * st[1]}

RECURSIVE SumOf(_, _, _)
SumOf(ks, f, i) == IF i = 0 THEN 0 ELSE ks[i][f] + SumOf(ks, f, i - 1)

ScoredTree(b, k, ks, own) ==
    LET moves == LegalMoves(b)
        root == [NewNode(b, NoMove, NoNode, moves, 0) EXCEPT
                   !.children = [i \in 1..k |-> i + 1],
                   !.unexplored_moves = SubSeq(moves, k + 1, Len(moves)),
                   !.visits = SumOf(ks, 1, k) + own,
                   !.wins = 2 * SumOf(ks, 1, k) - SumOf(ks, 2, k) + own]
        kid(i) == [NewNode(Push(b, moves[i]), moves[i], 1,
                           LegalMoves(Push(b, moves[i])), 1) EXCEPT
                     !.visits = ks[i][1], !.wins = ks[i][2]]
    IN <<root>> \o [i \in 1..k |-> kid(i)]

ScoredTrees ==
    UNION {
      UNION {
        {ScoredTree(b, k, ks, own) :
           ks \in [1..k -> KidStats], own \in 0..1}
        : k \in 1..Len(LegalMoves(b))}
      : b \in {x \in Boards : x.turn}}

InitSelect ==
    /\ config \in {c \in Configs : /\ c.num_simulations = 0
                                   /\ c.max_simulation_depth = 0}
    /\ nodes \in ScoredTrees
    /\ board = nodes[1].board
    /\ simulations_run = 0
    /\ node = NoNode
    /\ child_node = NoNode
    /\ result = 0
    /\ simulation_board = NoBoard
    /\ pc = "score"
    /\ best_move = NoMove
    /\ stats = NoStats
    /\ persp = [i \in 1..Len(nodes) |-> 0]
    /\ started = [i \in 1..Len(nodes) |-> 0]
    /\ through = [i \in 1..Len(nodes) |-> nodes[i].visits]
    /\ calls_left = 0
    /\ prev_tree_size = 0
    /\ pv = NoPv

\* node.select_best_child(exploration_constant) on the root of the tree
ApplySelectBestChild ==
    /\ pc = "score"
    /\ node' = select_best_child(nodes, 1, config.exploration_constant)
    /\ pc' = "scored"
    /\ UNCHANGED <<config, board, nodes, simulations_run, child_node, result,
                   simulation_board, best_move, stats, persp, started,
                   through, calls_left, prev_tree_size, pv>>

NextSelect == ApplySelectBestChild

SpecSelect == InitSelect /\ [][NextSelect]_vars

TypeOK ==
    /\ pc \in {"idle", "loop", "expand", "simulate", "rollout", "backprop",
               "done", "raised"}
    /\ simulations_run \in 0..MaxSims
    /\ result \in {0, 1, 2}

NodeIds == 1..Len(nodes)
Returned == pc = "done"
Raised == pc = "raised"
AtIterationBoundary == pc \in {"loop", "done", "raised"} /\ Len(nodes) > 0
RootChildren == nodes[1].children
ChildMoves(i) == [k \in 1..Len(nodes[i].children) |->
                     nodes[nodes[i].children[k]].move]

RECURSIVE SumVisits(_, _)
SumVisits(ids, k) ==
    IF k = 0 THEN 0 ELSE nodes[ids[k]].visits + SumVisits(ids, k - 1)

RECURSIVE SumSeq(_, _)
SumSeq(q, k) == IF k = 0 THEN 0 ELSE q[k] + SumSeq(q, k - 1)

\* rollouts backpropagated so far in this call of search()
TotalStarted == SumSeq(started, Len(started))

\* total of the visit counts of the children of node i
ChildVisits(i) == SumVisits(nodes[i].children, Len(nodes[i].children))

\* ---------------------------------------------------------------- claims

\* C1: visit conservation.  After k completed iterations the root's visit
\* count is k, whether or not the iteration's expansion made a new node,
\* and at return root_visits equals simulations_run.
C1_VisitConservation ==
    /\ (pc = "loop" => nodes[1].visits = simulations_run)
    /\ (Returned => /\ stats.root_visits = stats.simulations_run
                    /\ stats.simulations_run = simulations_run)

\* search() has returned after a last iteration whose expansion made no
\* node, in a tree that does have children
C1_Witness ==
    /\ Returned
    /\ stats.root_visits >= 2
    /\ child_node = node
    /\ child_node # 1

\* C2: statistic invariant.  At every iteration boundary every node has
\* 0 <= win_score <= visit_count (wins is in half points).
C2_StatisticInvariant ==
    AtIterationBoundary =>
        \A i \in NodeIds :
            /\ 0 <= nodes[i].wins
            /\ nodes[i].wins <= 2 * nodes[i].visits

\* after rollouts of all three outcomes, one node sits on the upper bound
\* and another on the lower
C2_Witness ==
    /\ pc = "loop"
    /\ simulations_run >= 3
    /\ \E i, j, k \in NodeIds :
          /\ nodes[i].visits >= 2 /\ nodes[i].wins = 2 * nodes[i].visits
          /\ nodes[j].visits >= 1 /\ nodes[j].wins = 0
          /\ nodes[k].wins % 2 = 1

\* C3: terminal handling.  A search on a terminal root returns "no move"
\* (it does not raise) with root_visits = 0 and children_count = 0.
C3_TerminalHandling ==
    (pc \in {"done", "raised"} /\ IsGameOver(board)) =>
        /\ Returned
        /\ best_move = NoMove
        /\ stats.root_visits = 0
        /\ stats.children_count = 0

\* C4: zero budget.  A search with num_simulations = 0 on a non-terminal
\* root returns "no move".
C4_ZeroBudget ==
    (pc \in {"done", "raised"} /\ config.num_simulations = 0
       /\ ~IsGameOver(board)) =>
        /\ Returned
        /\ best_move = NoMove

\* C5: final move choice.  The returned move is the incoming move of a
\* root child with maximal visit count, the first such child in children
\* order.
C5_FinalMoveChoice ==
    Returned =>
        \E i \in 1..Len(RootChildren) :
            /\ best_move = nodes[RootChildren[i]].move
            /\ \A j \in 1..Len(RootChildren) :
                  nodes[RootChildren[j]].visits
                      <= nodes[RootChildren[i]].visits
            /\ \A j \in 1..(i - 1) :
                  nodes[RootChildren[j]].visits
                      < nodes[RootChildren[i]].visits

\* search() has returned from a root whose first two children tie for the
\* largest visit count
C5_Witness ==
    /\ Returned
    /\ Len(RootChildren) >= 2
    /\ nodes[RootChildren[1]].visits = nodes[RootChildren[2]].visits
    /\ \A j \in 1..Len(RootChildren) :
          nodes[RootChildren[j]].visits <= nodes[RootChildren[1]].visits
    /\ best_move = nodes[RootChildren[1]].move

\* C6: depth cap.  No node of depth >= max_simulation_depth has a child.
C6_DepthCap ==
    \A i \in NodeIds :
        nodes[i].depth >= config.max_simulation_depth =>
            Len(nodes[i].children) = 0

\* expand() has just been called on a node at the cap that still has
\* untried moves, and returned that node
C6_Witness ==
    /\ pc = "simulate"
    /\ child_node = node
    /\ Len(nodes[node].unexplored_moves) > 0
    /\ nodes[node].depth >= config.max_simulation_depth
    /\ nodes[node].depth >= 1

\* C7: perspective of win_score.  At every iteration boundary every
\* node's win_score is the sum, over the rollouts backpropagated through
\* it, of the outcome for the side to move at that node.
C7_Perspective ==
    AtIterationBoundary =>
        \A i \in NodeIds : nodes[i].wins = persp[i]

\* C8: invalid configuration.  With a non-positive num_simulations,
\* max_simulation_depth or exploration_constant, search() fails before
\* any work: no root is built, no iteration runs, nothing is returned.
C8_InvalidConfig ==
    (\/ config.num_simulations <= 0
     \/ config.max_simulation_depth <= 0
     \/ config.exploration_constant <= 0) =>
        /\ Len(nodes) = 0
        /\ simulations_run = 0
        /\ pc \in {"idle", "raised"}

\* C9: rollout scoring.  A rollout ending in checkmate scores 0.0 when the
\* side to move there is for_side (the side to move at the root) and 1.0
\* otherwise; any other rollout scores 0.5.
C9_RolloutScoring ==
    pc = "backprop" =>
        /\ simulation_board \in RolloutEnds(nodes[child_node].board)
        /\ (IsCheckmate(simulation_board)
              /\ simulation_board.turn = board.turn) => result = 0
        /\ (IsCheckmate(simulation_board)
              /\ simulation_board.turn # board.turn) => result = 2
        /\ ~IsCheckmate(simulation_board) => result = 1
        /\ result \in {0, 1, 2}

\* a rollout that played at least one move and ended with for_side
\* checkmated
C9_Witness ==
    /\ pc = "backprop"
    /\ simulation_board # nodes[child_node].board
    /\ IsCheckmate(simulation_board)
    /\ simulation_board.turn = board.turn
    /\ result = 0

\* C10: UCB1 exploration bias.  select_best_child returns the child with
\* the largest UCB1 value, the first in children order among ties, and so
\* a never-visited child whenever the node has one.
C10_ExplorationBias ==
    pc = "scored" =>
        /\ \E i \in 1..Len(RootChildren) :
              /\ node = RootChildren[i]
              /\ \A j \in 1..Len(RootChildren) :
                    ucb1_value(nodes, RootChildren[j],
                               config.exploration_constant)
                      <= ucb1_value(nodes, node,
                                    config.exploration_constant)
              /\ \A j \in 1..(i - 1) :
                    ucb1_value(nodes, RootChildren[j],
                               config.exploration_constant)
                      < ucb1_value(nodes, node,
                                   config.exploration_constant)
              /\ \A j \in 1..(i - 1) : nodes[RootChildren[j]].visits >= 1
        /\ (\E j \in 1..Len(RootChildren) :
               nodes[RootChildren[j]].visits = 0)
             => nodes[node].visits = 0

\* the first child was visited once, a later one never, and the later one
\* is returned
C10_Witness ==
    /\ pc = "scored"
    /\ Len(RootChildren) >= 2
    /\ nodes[RootChildren[1]].visits = 1
    /\ nodes[RootChildren[1]].wins = 2
    /\ nodes[RootChildren[2]].visits = 0
    /\ node = RootChildren[2]

\* C11 as stated: in every state, for every node, visit_count = 0 exactly
\* when win_score = 0, and exactly when the node was never backpropagated
\* into.
C11_VisitsIffWins ==
    \A i \in NodeIds :
        /\ (nodes[i].visits = 0) <=> (nodes[i].wins = 0)
        /\ (nodes[i].visits = 0) <=> (through[i] = 0)

\* C11 amended: visit_count = 0 implies win_score = 0 (not the converse:
\* a node whose rollouts all scored 0.0 for it is visited with win_score
\* 0), and visit_count = 0 exactly when the node was never backpropagated
\* into.
C11_VisitsAndWins ==
    \A i \in NodeIds :
        /\ (nodes[i].visits = 0) => (nodes[i].wins = 0)
        /\ (nodes[i].visits = 0) <=> (through[i] = 0)

\* a freshly expanded node not yet backpropagated into, next to a node
\* that was, twice, and still has win_score 0
C11_Witness ==
    /\ pc = "simulate"
    /\ nodes[child_node].visits = 0
    /\ through[child_node] = 0
    /\ \E j \in NodeIds :
          /\ through[j] >= 2 /\ nodes[j].visits >= 2 /\ nodes[j].wins = 0

\* C12: move bookkeeping.  Every node has at most as many children as its
\* position has legal moves, its children have pairwise different
\* incoming moves, and no child's incoming move is still untried.
C12_MoveBookkeeping ==
    \A i \in NodeIds :
        /\ Len(nodes[i].children) <= Len(LegalMoves(nodes[i].board))
        /\ \A k, l \in 1..Len(nodes[i].children) :
              k # l => ChildMoves(i)[k] # ChildMoves(i)[l]
        /\ Range(ChildMoves(i)) \cap Range(nodes[i].unexplored_moves) = {}

\* a node with two children and a move still untried
C12_Witness ==
    \E i \in NodeIds :
        /\ Len(nodes[i].children) = 2
        /\ Len(nodes[i].unexplored_moves) = 1
        /\ nodes[nodes[i].children[2]].visits >= 1

\* the root child that search() reports has the largest visit count
BestMoveIsMostVisited ==
    \E k \in 1..Len(RootChildren) :
        /\ best_move = nodes[RootChildren[k]].move
        /\ \A l \in 1..Len(RootChildren) :
              nodes[RootChildren[l]].visits <= nodes[RootChildren[k]].visits

DepthOneRun ==
    /\ pc \in {"done", "raised"}
    /\ config.max_simulation_depth = 1
    /\ Len(LegalMoves(board)) >= 1
    /\ config.num_simulations >= Len(LegalMoves(board))

\* C13 as stated: with max depth 1, L >= 1 legal moves at the root and a
\* budget N >= L, the root ends with L children and no grandchildren, the
\* children's visit counts sum to root.visits = N, and the chosen move is
\* that of a most visited child.
C13_DepthOne ==
    DepthOneRun =>
        /\ Returned
        /\ Len(RootChildren) = Len(LegalMoves(board))
        /\ \A k \in 1..Len(RootChildren) :
              Len(nodes[RootChildren[k]].children) = 0
        /\ ChildVisits(1) = nodes[1].visits
        /\ nodes[1].visits = config.num_simulations
        /\ BestMoveIsMostVisited

\* C15 as stated, in the form a finite run refutes: a search with a
\* positive budget N on a non-terminal root ends by reporting
\* simulations_run = N.
C15_BudgetAnyDepth ==
    (pc \in {"done", "raised"} /\ config.num_simulations >= 1
       /\ ~IsGameOver(board)) =>
        /\ Returned
        /\ stats.simulations_run = config.num_simulations

\* the step that enters search()
EntersSearch == pc \in {"idle", "done", "raised"} /\ pc' = "loop"

\* C16: fresh tree per call.  Every call of search() starts from a new
\* root built from the board passed in, with no visits, no score and no
\* children; the tree and the statistics of a second call on the same
\* engine hold nothing of the first call's tree.
C16_FreshTree ==
    /\ [][EntersSearch =>
            /\ Len(nodes') = 1
            /\ nodes'[1].board = board'
            /\ nodes'[1].parent = NoNode
            /\ nodes'[1].visits = 0
            /\ nodes'[1].wins = 0
            /\ Len(nodes'[1].children) = 0
            /\ Range(nodes'[1].unexplored_moves)
                 = Range(LegalMoves(board'))]_vars
    /\ [](\A i \in NodeIds :
            IF i = 1 THEN nodes[i].board = board
            ELSE /\ nodes[i].parent \in 1..(i - 1)
                 /\ nodes[i].board
                      = Push(nodes[nodes[i].parent].board, nodes[i].move))
    /\ [](pc = "loop" => nodes[1].visits = simulations_run)
    /\ [](Returned =>
            /\ stats.tree_size = Len(nodes)
            /\ stats.root_visits = TotalStarted
            /\ stats.root_visits = config.num_simulations
            /\ stats.children_count = Len(RootChildren))

\* the second call has returned on an engine whose first call left a tree
\* of at least three nodes
C16_Witness ==
    /\ calls_left = 0
    /\ prev_tree_size >= 3
    /\ Returned
    /\ stats.root_visits >= 2
    /\ stats.tree_size < prev_tree_size
\* the result handed to the node at the given distance above the node
\* backpropagate was called on
ResultAt(r, distance) == IF distance % 2 = 0 THEN r ELSE 2 - r

\* C17: backpropagate(result) on a node at depth d adds 1 to the visit
\* count of each of the d + 1 nodes on the path from that node to the
\* root, adds result to win_score of the path nodes at even distance and
\* 1 - result to those at odd distance, stops at the root, and leaves
\* every node off the path, and every other field, unchanged.
C17_BackpropagateFrame ==
    [][pc = "backprop" =>
         LET path == PathToRoot(nodes, child_node)
             d == nodes[child_node].depth
         IN /\ Cardinality(path) = d + 1
            /\ 1 \in path
            /\ Len(nodes') = Len(nodes)
            /\ \A i \in NodeIds :
                  IF i \in path
                  THEN /\ nodes'[i].visits = nodes[i].visits + 1
                       /\ nodes'[i].wins
                            = nodes[i].wins
                              + ResultAt(result, d - nodes[i].depth)
                       /\ [nodes'[i] EXCEPT !.visits = 0, !.wins = 0]
                            = [nodes[i] EXCEPT !.visits = 0, !.wins = 0]
                  ELSE nodes'[i] = nodes[i]]_vars

\* a decisive rollout has been backpropagated from a node at depth 2 in a
\* tree that has nodes off the path
C17_Witness ==
    /\ pc = "loop"
    /\ child_node # NoNode
    /\ nodes[child_node].depth = 2
    /\ result = 2
    /\ Len(nodes) >= 4
    /\ nodes[child_node].wins >= 2
    /\ nodes[1].wins >= 2

\* C18: expand on a node whose untried moves are empty or whose depth is
\* at least the maximum returns that node and leaves the whole tree
\* unchanged; in every other case it adds exactly one node, as the last
\* child of the node it was called on, and returns it.
C18_ExpandFrame ==
    [][pc = "expand" =>
         IF \/ Len(nodes[node].unexplored_moves) = 0
            \/ nodes[node].depth >= config.max_simulation_depth
         THEN /\ child_node' = node
              /\ nodes' = nodes
         ELSE /\ Len(nodes') = Len(nodes) + 1
              /\ child_node' = Len(nodes')
              /\ nodes'[child_node'].parent = node
              /\ nodes'[child_node'].visits = 0
              /\ nodes'[child_node'].wins = 0
              /\ Len(nodes'[child_node'].children) = 0
              /\ nodes'[node].children
                   = Append(nodes[node].children, child_node')
              /\ \A i \in NodeIds \ {node} : nodes'[i] = nodes[i]
              /\ nodes'[node].visits = nodes[node].visits
              /\ nodes'[node].wins = nodes[node].wins]_vars

\* expand has returned the node itself because of the depth limit, with
\* moves still untried, in a tree it had grown before
C18_Witness ==
    /\ pc = "simulate"
    /\ child_node = node
    /\ Len(nodes[node].unexplored_moves) > 0
    /\ nodes[node].depth >= config.max_simulation_depth
    /\ Len(RootChildren) >= 2

\* C19: expansion order.  For every node the incoming moves of its
\* children, in children order, followed by its untried moves, in order,
\* are the node's legal moves in the order shuffled at its creation; an
\* expansion removes the first untried move and appends the child for
\* exactly that move.
C19_ExpansionOrder ==
    /\ [](\A i \in NodeIds :
            ChildMoves(i) \o nodes[i].unexplored_moves
              = nodes[i].legal_moves)
    /\ [][(pc = "expand" /\ Len(nodes[node].unexplored_moves) > 0
              /\ nodes[node].depth < config.max_simulation_depth) =>
            /\ nodes'[child_node'].move
                 = Head(nodes[node].unexplored_moves)
            /\ nodes'[node].unexplored_moves
                 = Tail(nodes[node].unexplored_moves)
            /\ nodes'[node].legal_moves = nodes[node].legal_moves
            /\ nodes'[node].children[Len(nodes'[node].children)]
                 = child_node']_vars

\* a root whose shuffle changed the engine's move order has two children
\* and a move left untried
C19_Witness ==
    /\ Len(nodes) >= 3
    /\ Len(RootChildren) = 2
    /\ Len(nodes[1].unexplored_moves) = 1
    /\ nodes[1].legal_moves # LegalMoves(board)

\* the child of node i that lies on the path from the root down to node n
ChildToward(i, n) ==
    CHOOSE k \in PathToRoot(nodes, n) : nodes[k].parent = i

\* C20: the node Select returns is reached from the root by following
\* select_best_child only through nodes that are non-terminal and fully
\* expanded, and is itself terminal or not fully expanded.
C20_SelectionPath ==
    [][(pc = "loop" /\ pc' = "expand") =>
         /\ node' \in NodeIds
         /\ is_terminal(nodes[node']) \/ ~is_fully_expanded(nodes[node'])
         /\ \A i \in PathToRoot(nodes, node') \ {node'} :
               /\ ~is_terminal(nodes[i])
               /\ is_fully_expanded(nodes[i])
               /\ ChildToward(i, node')
                    = select_best_child(nodes, i,
                                        config.exploration_constant)]_vars

\* Select has gone down two levels, through a root and a child that are
\* both fully expanded
C20_Witness ==
    /\ pc = "expand"
    /\ nodes[node].depth = 2
    /\ nodes[1].visits >= 4
\* C21: a rollout stops after a bounded number of plies even when the
\* rules engine never reports game-over and always returns a legal move,
\* and then scores 0.5 (1 in half points).
C21_RolloutPlyCap ==
    /\ (pc = "rollout") ~> (pc = "backprop")
    /\ []((pc = "backprop" /\ nodes[child_node].board \in EndlessBoards)
            => result = 1)
\* C22: breadth before revisit.  While a node of depth below the maximum
\* has a legal move not yet expanded, none of its children has a second
\* visit; the first min(N, L) iterations from a non-terminal root with L
\* legal moves each create a new root child, visited exactly once.
C22_BreadthBeforeRevisit ==
    /\ \A i \in NodeIds :
          (/\ nodes[i].depth < config.max_simulation_depth
           /\ Len(nodes[i].unexplored_moves) > 0) =>
              \A k \in 1..Len(nodes[i].children) :
                  nodes[nodes[i].children[k]].visits <= 1
    /\ (/\ pc = "loop"
        /\ ~IsGameOver(board)
        /\ config.max_simulation_depth >= 1
        /\ simulations_run <= Len(LegalMoves(board))) =>
          /\ Len(nodes) = 1 + simulations_run
          /\ Len(RootChildren) = simulations_run
          /\ \A k \in 1..Len(RootChildren) :
                nodes[RootChildren[k]].visits = 1

\* a node below the root, visited twice, has one child, visited once, and
\* a move still to expand, after the root's own moves were all expanded
C22_Witness ==
    /\ pc = "loop"
    /\ ~IsGameOver(board)
    /\ Len(nodes[1].unexplored_moves) = 0
    /\ \E i \in NodeIds \ {1} :
          /\ Len(nodes[i].unexplored_moves) > 0
          /\ Len(nodes[i].children) = 1
          /\ nodes[i].visits = 2
          /\ nodes[nodes[i].children[1]].visits = 1
\* the places (node, index) of the children lists that hold node i
ChildSlots(i) ==
    {sl \in NodeIds \X NodeIds :
        /\ sl[2] <= Len(nodes[sl[1]].children)
        /\ nodes[sl[1]].children[sl[2]] = i}

\* C23: tree shape.  The root has no parent and depth 0; every other node
\* is in the children list of exactly one node, once, and that node is
\* its parent; its depth is its parent's depth + 1; following the parent
\* links from any node reaches the root in exactly depth steps.
C23_TreeShape ==
    Len(nodes) > 0 =>
        /\ nodes[1].parent = NoNode
        /\ nodes[1].depth = 0
        /\ ChildSlots(1) = {}
        /\ \A i \in NodeIds \ {1} :
              /\ nodes[i].parent \in NodeIds \ {i}
              /\ Cardinality(ChildSlots(i)) = 1
              /\ \A sl \in ChildSlots(i) : sl[1] = nodes[i].parent
              /\ nodes[i].depth = nodes[nodes[i].parent].depth + 1
        /\ \A i \in NodeIds :
              /\ 1 \in PathToRoot(nodes, i)
              /\ Cardinality(PathToRoot(nodes, i)) = nodes[i].depth + 1

\* a tree with two levels below the root and a node with two children
C23_Witness ==
    /\ Len(nodes) >= 5
    /\ \E i \in NodeIds : nodes[i].depth = 2
    /\ \E i \in NodeIds : Len(nodes[i].children) >= 2
\* C24: position snapshots.  Within a call of search() the board of a
\* node never changes once the node exists, whether a child is expanded
\* from it or a rollout is played from it, and the board the caller
\* passed in is never changed; every child's board is its parent's board
\* with the child's move applied.
C24_PositionSnapshots ==
    /\ [][~EntersSearch =>
            /\ board' = board
            /\ \A i \in NodeIds : nodes'[i].board = nodes[i].board]_vars
    /\ [](Len(nodes) > 0 => nodes[1].board = board)
    /\ [](\A i \in NodeIds \ {1} :
            nodes[i].board
              = Push(nodes[nodes[i].parent].board, nodes[i].move))

\* a rollout from a node below the root has played at least one move, in
\* a tree where a node with a child has been expanded again
C24_Witness ==
    /\ pc = "backprop"
    /\ child_node > 1
    /\ simulation_board # nodes[child_node].board
    /\ \E i \in NodeIds : Len(nodes[i].children) >= 2
\* the node sequences that spell the moves pv holds: each node a child of
\* the one before (the first a child of the root), reached by the move
\* at its place, with no sibling visited more often and every sibling
\* before it in children order visited less often
PvPaths ==
    {p \in [1..Len(pv.moves) -> NodeIds] :
        \A k \in 1..Len(pv.moves) :
            LET from == IF k = 1 THEN 1 ELSE p[k - 1]
                sibs == nodes[from].children
            IN /\ nodes[p[k]].move = pv.moves[k]
               /\ \E at \in 1..Len(sibs) :
                     /\ sibs[at] = p[k]
                     /\ \A j \in 1..Len(sibs) :
                           /\ nodes[sibs[j]].visits <= nodes[p[k]].visits
                           /\ j < at =>
                                nodes[sibs[j]].visits < nodes[p[k]].visits}

\* C25: get_principal_variation(depth) returns the incoming moves along
\* the path that starts at the root and goes to the most-visited child at
\* each step (the first in children order on ties); the path stops at the
\* first node without children or after depth steps, so it has at most
\* depth moves; the call changes nothing in the tree.
C25_PrincipalVariation ==
    /\ [](pv # NoPv =>
            /\ Len(pv.moves) <= pv.depth
            /\ \E p \in PvPaths :
                  LET last == IF Len(pv.moves) = 0 THEN 1
                              ELSE p[Len(pv.moves)]
                  IN \/ Len(pv.moves) = pv.depth
                     \/ Len(nodes[last].children) = 0)
    /\ [][pv' # pv =>
            UNCHANGED <<nodes, config, board, best_move, stats>>]_vars

\* a principal variation of two moves that ends at a node without
\* children, whose first step was decided between equally visited children
C25_Witness ==
    /\ pv # NoPv
    /\ pv.depth = 2
    /\ Len(pv.moves) = 2
    /\ \E p \in PvPaths :
          /\ Len(nodes[p[2]].children) = 0
          /\ \E j \in 1..Len(RootChildren) :
                /\ RootChildren[j] # p[1]
                /\ nodes[RootChildren[j]].visits = nodes[p[1]].visits
\* C26: at every iteration boundary every node other than the root has
\* been visited at least once; so whenever the root has a child, search()
\* does not fail, and the win rate of the chosen child is a division by
\* a positive visit count.
C26_VisitedOnCreation ==
    /\ AtIterationBoundary =>
          \A i \in NodeIds \ {1} : nodes[i].visits >= 1
    /\ Raised => Len(RootChildren) = 0
    /\ Returned =>
          /\ stats.selected_move_win_rate[2] >= 2
          /\ stats.best_move_visits >= 1

\* search() has returned from a tree in which a node two levels below the
\* root was visited only by the iteration that created it
C26_Witness ==
    /\ Returned
    /\ Len(RootChildren) >= 2
    /\ \E i \in NodeIds : nodes[i].depth = 2 /\ nodes[i].visits = 1
\* C27: at every iteration boundary every node's visit count is the sum
\* of its children's visit counts plus the number of iterations whose
\* rollout started at the node itself; so no child has more visits than
\* its parent, and where select_best_child computes UCB1 for a visited
\* child the parent's visit count is at least 1.
C27_VisitAccounting ==
    AtIterationBoundary =>
        \A i \in NodeIds :
            /\ nodes[i].visits = ChildVisits(i) + started[i]
            /\ \A k \in 1..Len(nodes[i].children) :
                  /\ nodes[nodes[i].children[k]].visits <= nodes[i].visits
                  /\ nodes[nodes[i].children[k]].visits >= 1 =>
                        nodes[i].visits >= 1

\* at an iteration boundary a node below the root counts both a rollout
\* of its own and the visits of two children
C27_Witness ==
    /\ pc = "loop"
    /\ \E i \in NodeIds \ {1} :
          /\ started[i] >= 1
          /\ Len(nodes[i].children) = 2
          /\ nodes[i].visits = 3
\* C28: the rules engine reports game-over for every position without a
\* legal move (true of Kind and Successors); then a node that is not
\* game-over and has no untried move has a child, and Select, whatever
\* the maximum depth, never meets an empty children list: it always
\* returns a node of the tree.
C28_SelectNeverFails ==
    /\ [](\A i \in NodeIds :
            (/\ ~IsGameOver(nodes[i].board)
             /\ Len(nodes[i].unexplored_moves) = 0) =>
                Len(nodes[i].children) >= 1)
    /\ [][(pc = "loop" /\ simulations_run < config.num_simulations) =>
            /\ pc' = "expand"
            /\ node' \in NodeIds]_vars

\* Select has gone down through a fully expanded root to a node whose
\* position has no legal move, and stopped there
C28_Witness ==
    /\ pc = "expand"
    /\ node > 1
    /\ Len(nodes[1].unexplored_moves) = 0
    /\ Len(nodes[node].legal_moves) = 0
    /\ Len(nodes[node].children) = 0
    /\ \A b \in Boards : Len(LegalMoves(b)) = 0 => IsGameOver(b)
====
